---- MODULE Spec2Model ----
(***************************************************************************)
(* Model of pull-metrics.go: main parses the date window from the command  *)
(* line, then runs the GitHub pull-request pipeline (cursor pagination,    *)
(* window filter with early stop, per-author aggregation) and the Jira     *)
(* pipeline (offset pagination, changelog scan, per-person aggregation).   *)
(* The program is sequential: pc is the position of main.                  *)
(***************************************************************************)
EXTENDS Integers, Sequences, FiniteSets

\* ------------------------------------------------------------------------
\* Bounds of the model
\* ------------------------------------------------------------------------
\* longest repository history enumerated with varied creation dates
MaxPRs == 3
\* longest repository history enumerated with varied closed/merged status
MaxStatusPRs == 2
\* requests after which the Jira loop is no longer followed
MaxJiraRequests == 3

\* ------------------------------------------------------------------------
\* Program constants
\* ------------------------------------------------------------------------
\* pullRequests(first: 100, ...)
PageLimit == 100
\* Jira's page size, and the literal the loop compares against
JiraPageSize == 50
\* time.Hour * 24, in seconds
DaySeconds == 86400

\* ------------------------------------------------------------------------
\* time.Time, as seconds since 1970-01-01 00:00:00 UTC
\* ------------------------------------------------------------------------
\* time.Time{}: the value a null closedAt / mergedAt decodes to (year 1),
\* earlier than every instant of the model
ZeroTime == 0

After(t, u) == t > u

IsLeap(y) == (y % 4 = 0 /\ y % 100 # 0) \/ y % 400 = 0

LeapsBefore(y) == ((y - 1) \div 4) - ((y - 1) \div 100) + ((y - 1) \div 400)

DaysBeforeYear(y) == 365 * (y - 1970) + LeapsBefore(y) - LeapsBefore(1970)

DaysIn(y, m) ==
    IF m = 2 THEN (IF IsLeap(y) THEN 29 ELSE 28)
    ELSE IF m \in {4, 6, 9, 11} THEN 30 ELSE 31

RECURSIVE DaysBeforeMonth(_, _)
DaysBeforeMonth(y, m) ==
    IF m <= 1 THEN 0 ELSE DaysBeforeMonth(y, m - 1) + DaysIn(y, m - 1)

\* A command-line argument is the text split at "-": <<year, month, day>>,
\* or <<>> for a text that is no date at all.
\* time.Parse("2006-1-2", arg): err # nil
ParseFails(arg) ==
    \/ Len(arg) # 3
    \/ arg[1] < 0 \/ arg[1] > 9999
    \/ arg[2] < 1 \/ arg[2] > 12
    \/ arg[3] < 1 \/ arg[3] > DaysIn(arg[1], arg[2])

\* time.Parse("2006-1-2", arg): midnight UTC of that day
ParseDate(arg) ==
    (DaysBeforeYear(arg[1]) + DaysBeforeMonth(arg[1], arg[2]) + (arg[3] - 1))
        * DaySeconds

\* the second not taken off: date.Add(time.Hour * 24)
StartOfNextDay(date) == date + DaySeconds

\* date.Add(time.Hour * 24 - time.Second)
EndOfDay(date) == date + (DaySeconds - 1)

\* ------------------------------------------------------------------------
\* Inputs: command line, clock
\* ------------------------------------------------------------------------
Feb28 == <<2024, 2, 28>>
Mar15 == <<2024, 3, 15>>
Feb30 == <<2024, 2, 30>>
NotADate == <<>>

ArgValues == {Feb28, Mar15, Feb30, NotADate}

\* os.Args[1:], at most two arguments are read
ArgLists ==
    {<<>>} \cup {<<a>> : a \in ArgValues}
           \cup {<<a, b>> : a \in ArgValues, b \in ArgValues}

DefaultArgs == <<Feb28, Mar15>>

\* time.Now(): 2024-03-10 12:00:00
NowValue == ParseDate(<<2024, 3, 10>>) + 12 * 3600

\* instants around the window of DefaultArgs
WinStart == ParseDate(Feb28)
WinEnd == EndOfDay(ParseDate(Mar15))

\* ------------------------------------------------------------------------
\* Inputs: the repository's pull requests, as the GraphQL server holds them
\* ------------------------------------------------------------------------
\* logins are texts, written as sequences of letter codes: "a", "ab", "b"
LoginA == <<1>>
LoginAB == <<1, 2>>
LoginB == <<2>>

\* creation instants on both sides of each bound of the window
PRTimes == {WinStart - 1, WinStart, WinStart + 1, WinEnd, WinEnd + 1}

\* closedAt / mergedAt instants on both sides of the window's end
StatusTimes == {WinEnd, WinEnd + 1}

\* open pull requests with every creation instant
TimingPool ==
    {[login |-> l, createdAt |-> t,
      additions |-> 10 * Len(l), deletions |-> l[1], changedFiles |-> 3,
      closed |-> FALSE, closedAt |-> ZeroTime,
      merged |-> FALSE, mergedAt |-> ZeroTime] :
        l \in {LoginAB, LoginB}, t \in PRTimes}

\* pull requests inside the window with every closed/merged combination
StatusPool ==
    {[login |-> LoginA, createdAt |-> WinEnd,
      additions |-> 5, deletions |-> 7, changedFiles |-> 2,
      closed |-> c, closedAt |-> ct,
      merged |-> m, mergedAt |-> mt] :
        c \in BOOLEAN, ct \in StatusTimes, m \in BOOLEAN, mt \in StatusTimes}

\* orderBy: {direction: DESC, field: CREATED_AT}
Descending(prs) ==
    \A i \in 1..(Len(prs) - 1) : prs[i].createdAt >= prs[i + 1].createdAt

SeqsUpTo(S, n) == UNION {[1..k -> S] : k \in 0..n}

Repositories ==
    {prs \in SeqsUpTo(TimingPool, MaxPRs) : Descending(prs)}
        \cup SeqsUpTo(StatusPool, MaxStatusPRs)

PR(l, t, c, ct, m, mt) ==
    [login |-> l, createdAt |-> t,
     additions |-> 10 * Len(l), deletions |-> l[1], changedFiles |-> 3,
     closed |-> c, closedAt |-> ct, merged |-> m, mergedAt |-> mt]

\* the repository used while another input is varied
DefaultPRs ==
    << PR(LoginB, WinEnd + 1, FALSE, ZeroTime, FALSE, ZeroTime),
       PR(LoginAB, WinEnd, TRUE, WinEnd + 1, TRUE, WinEnd + 1),
       PR(LoginA, NowValue + 1, FALSE, ZeroTime, FALSE, ZeroTime),
       PR(LoginB, NowValue, TRUE, NowValue, TRUE, NowValue),
       PR(LoginA, WinStart + 1, TRUE, NowValue, FALSE, ZeroTime),
       PR(LoginAB, WinStart, FALSE, ZeroTime, FALSE, ZeroTime),
       PR(LoginB, WinStart - 1, TRUE, WinStart, TRUE, WinStart) >>

\* records the server puts in one page
PageSizes == {1, 3, 100}

Min(a, b) == IF a <= b THEN a ELSE b

\* The server's answer to pullRequests(first: PageLimit, after: cursor).
\* A cursor is the position of the last record of the page it ends.
ServePage(prs, cursor, size) ==
    LET from == IF cursor = <<>> THEN 0 ELSE cursor[1]
        to == Min(from + Min(size, PageLimit), Len(prs))
    IN  [nodes |-> SubSeq(prs, from + 1, to),
         hasNextPage |-> to < Len(prs),
         endCursor |-> to]

\* user(login: $login) { name }
UserName(login) == [nameOf |-> login]

\* ------------------------------------------------------------------------
\* GitHub pipeline: the window filter
\* ------------------------------------------------------------------------
\* the slice is not reset: the next answer is appended to the last one
KeepNodes(nodes) == nodes

\* query.Repository.PullRequest.Nodes = nil, before each query: the GraphQL
\* decoder appends the records of the answer to the slice it is given
ResetNodes(nodes) == <<>>

\* pr.CreatedAt.After(endDate)
TooNew(pr, endDate) == After(pr.createdAt, endDate)

\* the lower bound taken inclusive: !pr.CreatedAt.Before(initialDate)
CreatedAtOrAfterStart(pr, initialDate) == pr.createdAt >= initialDate

\* pr.CreatedAt.After(initialDate)
CreatedAfterStart(pr, initialDate) == After(pr.createdAt, initialDate)

\* The scan of one page, from record i on: acc is allPRs; stopped is TRUE
\* when the scan left through "break out".
RECURSIVE ScanFrom(_, _, _, _, _)
ScanFrom(nodes, i, acc, initialDate, endDate) ==
    IF i > Len(nodes) THEN [allPRs |-> acc, stopped |-> FALSE]
    ELSE IF TooNew(nodes[i], endDate)
        THEN ScanFrom(nodes, i + 1, acc, initialDate, endDate)
    ELSE IF CreatedAfterStart(nodes[i], initialDate)
        THEN ScanFrom(nodes, i + 1, Append(acc, nodes[i]), initialDate, endDate)
    ELSE [allPRs |-> acc, stopped |-> TRUE]

ScanPage(nodes, acc, initialDate, endDate) ==
    ScanFrom(nodes, 1, acc, initialDate, endDate)

\* ------------------------------------------------------------------------
\* GitHub pipeline: grouping, sorting, classification
\* ------------------------------------------------------------------------
\* prByUser[pr.Author.Login] = append(prByUser[pr.Author.Login], pr)
GroupByUser(prs) ==
    [l \in {prs[i].login : i \in 1..Len(prs)} |->
        SelectSeq(prs, LAMBDA pr : pr.login = l)]

\* the orders in which "for login, _ := range prByUser" may visit the keys
KeyOrders(keys) ==
    {s \in [1..Cardinality(keys) -> keys] :
        \A i, j \in 1..Cardinality(keys) : i # j => s[i] # s[j]}

\* a < b for Go strings: byte-wise lexicographic order
RECURSIVE LexLessFrom(_, _, _)
LexLessFrom(a, b, i) ==
    IF i > Len(a) THEN i <= Len(b)
    ELSE IF i > Len(b) THEN FALSE
    ELSE IF a[i] < b[i] THEN TRUE
    ELSE IF a[i] > b[i] THEN FALSE
    ELSE LexLessFrom(a, b, i + 1)

LexLess(a, b) == LexLessFrom(a, b, 1)

RECURSIVE InsertSorted(_, _)
InsertSorted(x, s) ==
    IF s = <<>> THEN <<x>>
    ELSE IF LexLess(x, Head(s)) THEN <<x>> \o s
    ELSE <<Head(s)>> \o InsertSorted(x, Tail(s))

\* the logins left in the order the map was visited in
Unsorted(s) == s

\* sort.Strings(sortedLogins)
RECURSIVE SortStrings(_)
SortStrings(s) ==
    IF s = <<>> THEN <<>> ELSE InsertSorted(Head(s), SortStrings(Tail(s)))

\* the merge date left out: pr.Merged
IsMergedAnyTime(pr, endDate) == pr.merged

\* pr.Merged && !pr.MergedAt.After(endDate)
IsMerged(pr, endDate) == pr.merged /\ ~After(pr.mergedAt, endDate)

\* the close date left out: !pr.Closed
IsNotClosed(pr, endDate) == ~pr.closed

\* !pr.Closed || pr.ClosedAt.After(endDate)
IsOpen(pr, endDate) == ~pr.closed \/ After(pr.closedAt, endDate)

ZeroTally ==
    [addedLines |-> 0, removedLines |-> 0, changedFiles |-> 0,
     mergedPRs |-> 0, openPRs |-> 0]

\* the loop with "if" in place of "else if": the open test is made for
\* merged pull requests too
RECURSIVE TallyBothFrom(_, _, _, _)
TallyBothFrom(prs, i, acc, endDate) ==
    IF i > Len(prs) THEN acc
    ELSE LET pr == prs[i]
         IN  TallyBothFrom(prs, i + 1,
                [addedLines |-> acc.addedLines + pr.additions,
                 removedLines |-> acc.removedLines + pr.deletions,
                 changedFiles |-> acc.changedFiles + pr.changedFiles,
                 mergedPRs |-> acc.mergedPRs +
                    (IF IsMerged(pr, endDate) THEN 1 ELSE 0),
                 openPRs |-> acc.openPRs +
                    (IF IsOpen(pr, endDate) THEN 1 ELSE 0)],
                endDate)

\* the loop over prByUser[login], from record i on
RECURSIVE TallyFrom(_, _, _, _)
TallyFrom(prs, i, acc, endDate) ==
    IF i > Len(prs) THEN acc
    ELSE LET pr == prs[i]
             isMerged == IsMerged(pr, endDate)
             isOpen == ~isMerged /\ IsOpen(pr, endDate)
         IN  TallyFrom(prs, i + 1,
                [addedLines |-> acc.addedLines + pr.additions,
                 removedLines |-> acc.removedLines + pr.deletions,
                 changedFiles |-> acc.changedFiles + pr.changedFiles,
                 mergedPRs |-> acc.mergedPRs + (IF isMerged THEN 1 ELSE 0),
                 openPRs |-> acc.openPRs + (IF isOpen THEN 1 ELSE 0)],
                endDate)

\* one row of the table; the percentage is kept as dividend and divisor
MakeRow(login, name, prs, endDate) ==
    LET t == TallyFrom(prs, 1, ZeroTally, endDate)
    IN  [login |-> login, name |-> name, numPRs |-> Len(prs),
         mergedPRs |-> t.mergedPRs,
         pctDividend |-> t.mergedPRs * 100, pctDivisor |-> Len(prs),
         openPRs |-> t.openPRs, addedLines |-> t.addedLines,
         removedLines |-> t.removedLines, changedFiles |-> t.changedFiles]

ZeroTotals ==
    [totalPRs |-> 0, totalMergedPRs |-> 0, totalAddedLines |-> 0,
     totalRemovedLines |-> 0, totalChangedFiles |-> 0]

AddToTotals(tot, row) ==
    [totalPRs |-> tot.totalPRs + row.numPRs,
     totalMergedPRs |-> tot.totalMergedPRs + row.mergedPRs,
     totalAddedLines |-> tot.totalAddedLines + row.addedLines,
     totalRemovedLines |-> tot.totalRemovedLines + row.removedLines,
     totalChangedFiles |-> tot.totalChangedFiles + row.changedFiles]

\* the footer's averages, kept as dividends and their common divisor
MakeFooter(tot, sortedLogins) ==
    [totalPRs |-> tot.totalPRs, totalMergedPRs |-> tot.totalMergedPRs,
     totalAddedLines |-> tot.totalAddedLines,
     totalRemovedLines |-> tot.totalRemovedLines,
     totalChangedFiles |-> tot.totalChangedFiles,
     divisor |-> Len(sortedLogins)]

\* ------------------------------------------------------------------------
\* Inputs: the issues the Jira search matches, as the server holds them
\* ------------------------------------------------------------------------
Item(f, t) == [field |-> f, toString |-> t]

History(a, items) == [author |-> a, items |-> items]

Issue(type, histories) == [type |-> type, histories |-> histories]

ToInProgress == <<Item("status", "In Progress")>>

\* the shapes of issue the server holds, repeated in this order
IssuePool ==
    << Issue("Story", <<History("ann", ToInProgress)>>),
       Issue("Spike", <<History("ann", ToInProgress),
                        History("ben", ToInProgress)>>),
       Issue("Story", <<>>),
       Issue("Story", <<History("ben", ToInProgress),
                        History("ann", <<Item("status", "Done")>>)>>),
       Issue("Spike", <<History("ann", <<Item("assignee", "In Progress")>>),
                        History("ben", <<Item("status", "In Review"),
                                         Item("status", "In Progress")>>)>>),
       Issue("Story", <<History("ben", ToInProgress),
                        History("cat", <<Item("summary", "In Progress")>>),
                        History("ben", ToInProgress)>>),
       Issue("Bug", <<History("ann", <<Item("assignee", "In Progress")>>),
                      History("cat", <<>>)>>),
       Issue("Spike", <<History("ben", ToInProgress),
                        History("ann", ToInProgress),
                        History("cat", <<Item("status", "Done")>>)>>) >>

\* numbers of issues the search matches
JiraSizes == {0, 2, 49, 50, 52}

JiraShifts == 0..(Len(IssuePool) - 1)

\* the issues used while another input is varied
DefaultJira == [size |-> 2, shift |-> 1]

\* the i-th issue the search matches
JiraIssue(i, shift) == IssuePool[((i - 1 + shift) % Len(IssuePool)) + 1]

\* The body of a 200 answer to POST /rest/api/2/search with "startAt": total
\* is the number of issues matched, issues holds at most JiraPageSize of them.
JiraSearch(n, shift, startAt) ==
    LET to == Min(startAt + JiraPageSize, n)
    IN  [total |-> n,
         issues |-> [i \in 1..(IF to > startAt THEN to - startAt ELSE 0) |->
                        JiraIssue(startAt + i, shift)]]

\* report := &jiraReport{}: also what a JSON body without "total" and
\* "issues" (Jira's {"errorMessages": [...]}) decodes to
EmptyReport == [total |-> 0, issues |-> <<>>]

\* ------------------------------------------------------------------------
\* Jira pipeline: changelog scan
\* ------------------------------------------------------------------------
\* the field left out: item.ToString == "In Progress", for some item
HasInProgressText(items) ==
    \E j \in 1..Len(items) : items[j].toString = "In Progress"

\* item.Field == "status" && item.ToString == "In Progress", for some item
HasInProgressItem(items) ==
    \E j \in 1..Len(items) :
        items[j].field = "status" /\ items[j].toString = "In Progress"

\* for i := len(histories)-1; i >= 0; i--: the position of the entry the
\* scan stops at ("break next"), 0 when it runs through
RECURSIVE ScanHistories(_, _)
ScanHistories(histories, i) ==
    IF i < 1 THEN 0
    ELSE IF HasInProgressItem(histories[i].items) THEN i
    ELSE ScanHistories(histories, i - 1)

RECURSIVE ScanHistoriesForward(_, _)
ScanHistoriesForward(histories, i) ==
    IF i > Len(histories) THEN 0
    ELSE IF HasInProgressItem(histories[i].items) THEN i
    ELSE ScanHistoriesForward(histories, i + 1)

\* the scan run from the oldest entry: for i := 0; i < len(histories); i++
FindFirstInProgress(histories) == ScanHistoriesForward(histories, 1)

FindInProgress(histories) == ScanHistories(histories, Len(histories))

ZeroCount == [totalInProgress |-> 0, spikeInProgress |-> 0]

\* countByPerson[name], the zero value for a missing key
Lookup(counts, name) ==
    IF name \in DOMAIN counts THEN counts[name] ELSE ZeroCount

\* the body of "for _, issue := range report.Issues"
CountIssue(counts, issue) ==
    LET i == FindInProgress(issue.histories)
    IN  IF i = 0 THEN counts
        ELSE LET name == issue.histories[i].author
                 person == Lookup(counts, name)
                 updated ==
                    [totalInProgress |-> person.totalInProgress + 1,
                     spikeInProgress |-> person.spikeInProgress +
                        (IF issue.type = "Spike" THEN 1 ELSE 0)]
             IN  [n \in DOMAIN counts \cup {name} |->
                    IF n = name THEN updated ELSE counts[n]]

\* if report.Total < 50 { break }
LastPage(report) == report.total < JiraPageSize

\* totalIssues += report.Total
AddTotal(totalIssues, report) == totalIssues + report.total

\* ------------------------------------------------------------------------
\* State
\* ------------------------------------------------------------------------
VARIABLES
    pc,             \* position of main
    args,           \* os.Args[1:]
    initialDate,    \* main: initialDate
    endDate,        \* main: endDate
    fatal,          \* the log.Fatal call that ended the process, or "none"
    stdout,         \* what was printed: notices and tables, in order
    \* GitHub: the server
    repoPRs,        \* the repository's pull requests, newest first
    pageSize,       \* records the server puts in one page
    \* GitHub: printMetricsForGithub
    githubToken, githubOwner, githubRepo,
    prCursor,       \* variables["prCursor"]: <<>> is nil, <<c>> points to c
    query,          \* query.Repository.PullRequest: Nodes and PageInfo
    allPRs,
    prByUser,
    sortedLogins,
    loginIdx,       \* position of "for _, login := range sortedLogins"
    rows,           \* rows appended to the table
    totals,         \* totalPRs, totalMergedPRs, ... of the footer
    footer,
    \* Jira: the server
    jiraSize,       \* number of issues the search matches
    jiraShift,      \* which shape the first issue has
    \* Jira: printMetricsForJira
    jiraEnv,        \* jiraBaseUrl, jiraUser, jiraToken, jiraProject
    offset,
    totalIssues,
    countByPerson,
    report,         \* the report decoded last
    issueIdx,       \* position of "for _, issue := range report.Issues"
    \* history of the run
    ghRequests,     \* cursor of every pull-request query sent
    lookups,        \* login of every user query sent
    jiraRequests,   \* startAt of every search sent
    received,       \* every issue the loop went through
    upstream        \* the upstream answers that were failures

vars ==
    << pc, args, initialDate, endDate, fatal, stdout, repoPRs, pageSize,
       githubToken, githubOwner, githubRepo, prCursor, query, allPRs,
       prByUser, sortedLogins, loginIdx, rows, totals, footer,
       jiraSize, jiraShift, jiraEnv, offset, totalIssues, countByPerson,
       report, issueIdx, ghRequests, lookups, jiraRequests, received,
       upstream >>

mainVars == << args, initialDate, endDate >>
serverVars == << repoPRs, pageSize, jiraSize, jiraShift >>
githubEnvVars == << githubToken, githubOwner, githubRepo >>
githubLoopVars == << prCursor, query, allPRs, ghRequests >>
githubTableVars ==
    << prByUser, sortedLogins, loginIdx, rows, totals, footer, lookups >>
githubVars == << githubEnvVars, githubLoopVars, githubTableVars >>
jiraVars ==
    << jiraEnv, offset, totalIssues, countByPerson, report, issueIdx,
       jiraRequests, received >>

\* os.Getenv: "" for a variable that is not set
EnvValues == {"", "set"}

EmptyQuery == [nodes |-> <<>>, hasNextPage |-> FALSE, endCursor |-> 0]

EmptyMap == [k \in {} |-> 0]

InitProgram ==
    /\ pc = "main"
    /\ initialDate = ZeroTime /\ endDate = ZeroTime
    /\ fatal = "none" /\ stdout = <<>>
    /\ githubToken = "" /\ githubOwner = "" /\ githubRepo = ""
    /\ prCursor = <<>> /\ query = EmptyQuery /\ allPRs = <<>>
    /\ prByUser = EmptyMap /\ sortedLogins = <<>> /\ loginIdx = 1
    /\ rows = <<>> /\ totals = ZeroTotals
    /\ footer = MakeFooter(ZeroTotals, <<>>)
    /\ jiraEnv = <<"", "", "", "">>
    /\ offset = 0 /\ totalIssues = 0 /\ countByPerson = EmptyMap
    /\ report = EmptyReport /\ issueIdx = 1
    /\ ghRequests = <<>> /\ lookups = <<>> /\ jiraRequests = <<>>
    /\ received = <<>> /\ upstream = {}

\* One of the three inputs (command line, repository, issues) is varied
\* over its whole set while the other two have their default.
Init ==
    /\ InitProgram
    /\ pageSize \in PageSizes
    /\ \/ /\ args \in ArgLists
          /\ repoPRs = DefaultPRs
          /\ jiraSize = DefaultJira.size /\ jiraShift = DefaultJira.shift
       \/ /\ args = DefaultArgs
          /\ repoPRs \in Repositories
          /\ jiraSize = DefaultJira.size /\ jiraShift = DefaultJira.shift
       \/ /\ args = DefaultArgs
          /\ repoPRs = DefaultPRs
          /\ jiraSize \in JiraSizes /\ jiraShift \in JiraShifts

\* log.Fatal: the message is logged and the process exits with status 1
Fatal(what) == pc' = "exit1" /\ fatal' = what

\* ------------------------------------------------------------------------
\* main
\* ------------------------------------------------------------------------
MainFatal(what) == Fatal(what) /\ UNCHANGED << initialDate, endDate >>

\* main, up to the call of printMetricsForGithub
Main ==
    /\ pc = "main"
    /\ \E loaded \in BOOLEAN :
        IF ~loaded THEN MainFatal("env file")
        ELSE IF Len(args) < 1 THEN MainFatal("usage")
        ELSE IF ParseFails(args[1]) THEN MainFatal("start date")
        ELSE /\ initialDate' = ParseDate(args[1])
             /\ endDate' = IF Len(args) > 1 /\ ~ParseFails(args[2])
                              THEN EndOfDay(ParseDate(args[2]))
                              ELSE NowValue
             /\ pc' = "github"
             /\ fatal' = fatal
    /\ UNCHANGED << args, stdout, serverVars, githubVars, jiraVars, upstream >>

\* ------------------------------------------------------------------------
\* printMetricsForGithub
\* ------------------------------------------------------------------------
\* the test that guards the "GITHUB_REPO not provided" notice
RepoMissing(owner, repo) == owner = ""

\* the configuration checks, and the set-up of the client and the cursor
GithubConfig ==
    /\ pc = "github"
    /\ \E token \in EnvValues, owner \in EnvValues, repo \in EnvValues :
        /\ githubToken' = token
        /\ IF token = ""
           THEN /\ stdout' = Append(stdout, "GITHUB_TOKEN not provided")
                /\ UNCHANGED << githubOwner, githubRepo >>
                /\ pc' = "jira"
           ELSE /\ githubOwner' = owner
                /\ IF owner = ""
                   THEN /\ stdout' = Append(stdout, "GITHUB_OWNER not provided")
                        /\ UNCHANGED githubRepo
                        /\ pc' = "jira"
                   ELSE /\ githubRepo' = repo
                        /\ IF RepoMissing(owner, repo)
                           THEN /\ stdout' =
                                    Append(stdout, "GITHUB_REPO not provided")
                                /\ pc' = "jira"
                           ELSE /\ stdout' = stdout
                                /\ pc' = "gh_fetch"
    /\ prCursor' = <<>>
    /\ allPRs' = <<>>
    /\ UNCHANGED << mainVars, fatal, serverVars, query, ghRequests,
                    githubTableVars, jiraVars, upstream >>

\* the cursor left as it is
StaleCursor(cursor, endCursor) == cursor

\* variables["prCursor"] = &query.Repository.PullRequest.PageInfo.EndCursor
NextCursor(cursor, endCursor) == <<endCursor>>

\* one turn of the pagination loop: the query fails
GithubQueryFails ==
    /\ pc = "gh_fetch"
    /\ ghRequests' = Append(ghRequests, prCursor)
    /\ query' = [query EXCEPT !.nodes = ResetNodes(query.nodes)]
    /\ upstream' = upstream \cup {<<"github", "query">>}
    /\ Fatal("github query")
    /\ UNCHANGED << mainVars, stdout, serverVars, githubEnvVars, prCursor,
                    allPRs, githubTableVars, jiraVars >>

\* one turn of the pagination loop: the query is answered. The server
\* resolves no repository with an empty name, so that query only fails.
GithubFetchPage ==
    /\ pc = "gh_fetch"
    /\ githubRepo # ""
    /\ ghRequests' = Append(ghRequests, prCursor)
    /\ LET page == ServePage(repoPRs, prCursor, pageSize)
           nodes == ResetNodes(query.nodes) \o page.nodes
           scan == ScanPage(nodes, allPRs, initialDate, endDate)
       IN  /\ query' = [nodes |-> nodes, hasNextPage |-> page.hasNextPage,
                        endCursor |-> page.endCursor]
           /\ IF Len(nodes) = 0
              THEN UNCHANGED << allPRs, prCursor >> /\ pc' = "gh_group"
              ELSE /\ allPRs' = scan.allPRs
                   /\ IF scan.stopped \/ ~page.hasNextPage
                      THEN UNCHANGED prCursor /\ pc' = "gh_group"
                      ELSE /\ prCursor' = NextCursor(prCursor, page.endCursor)
                           /\ pc' = "gh_fetch"
    /\ UNCHANGED << mainVars, fatal, stdout, serverVars, githubEnvVars,
                    githubTableVars, jiraVars, upstream >>

\* from the count line to the start of the loop over sortedLogins
GithubGroup ==
    /\ pc = "gh_group"
    /\ prByUser' = GroupByUser(allPRs)
    /\ \E order \in KeyOrders(DOMAIN prByUser') :
        sortedLogins' = SortStrings(order)
    /\ loginIdx' = 1
    /\ rows' = <<>>
    /\ totals' = ZeroTotals
    /\ pc' = "gh_rows"
    /\ UNCHANGED << mainVars, fatal, stdout, serverVars, githubEnvVars,
                    githubLoopVars, footer, lookups, jiraVars, upstream >>

\* one turn of the loop over sortedLogins: getNameById fails
GithubLookupFails ==
    /\ pc = "gh_rows"
    /\ loginIdx <= Len(sortedLogins)
    /\ lookups' = Append(lookups, sortedLogins[loginIdx])
    /\ upstream' = upstream \cup {<<"github", "user">>}
    /\ Fatal("github user")
    /\ UNCHANGED << mainVars, stdout, serverVars, githubEnvVars,
                    githubLoopVars, prByUser, sortedLogins, loginIdx, rows,
                    totals, footer, jiraVars >>

\* one turn of the loop over sortedLogins: the row of one login
GithubRow ==
    /\ pc = "gh_rows"
    /\ loginIdx <= Len(sortedLogins)
    /\ LET login == sortedLogins[loginIdx]
           row == MakeRow(login, UserName(login), prByUser[login], endDate)
       IN  /\ lookups' = Append(lookups, login)
           /\ rows' = Append(rows, row)
           /\ totals' = AddToTotals(totals, row)
    /\ loginIdx' = loginIdx + 1
    /\ UNCHANGED << pc, mainVars, fatal, stdout, serverVars, githubEnvVars,
                    githubLoopVars, prByUser, sortedLogins, footer, jiraVars,
                    upstream >>

\* the footer, t.Render(), and the return to main
GithubRender ==
    /\ pc = "gh_rows"
    /\ loginIdx > Len(sortedLogins)
    /\ footer' = MakeFooter(totals, sortedLogins)
    /\ stdout' = Append(stdout, "github table")
    /\ pc' = "jira"
    /\ UNCHANGED << mainVars, fatal, serverVars, githubEnvVars,
                    githubLoopVars, prByUser, sortedLogins, loginIdx, rows,
                    totals, lookups, jiraVars, upstream >>

\* ------------------------------------------------------------------------
\* printMetricsForJira
\* ------------------------------------------------------------------------
JiraNotices ==
    << "JIRA_BASE_URL not provided", "JIRA_USER not provided",
       "JIRA_TOKEN not provided", "JIRA_PROJECT not provided" >>

\* the configuration checks, and the set-up of the loop
JiraConfig ==
    /\ pc = "jira"
    /\ \E env \in [1..4 -> EnvValues] :
        LET missing == {i \in 1..4 : env[i] = ""}
            first == CHOOSE i \in missing : \A j \in missing : i <= j
        IN  IF missing = {}
            THEN /\ jiraEnv' = env
                 /\ stdout' = stdout
                 /\ pc' = "jira_fetch"
            ELSE /\ jiraEnv' = [i \in 1..4 |-> IF i < first THEN env[i] ELSE ""]
                 /\ stdout' = Append(stdout, JiraNotices[first])
                 /\ pc' = "exit0"
    /\ offset' = 0
    /\ totalIssues' = 0
    /\ countByPerson' = EmptyMap
    /\ UNCHANGED << mainVars, fatal, serverVars, githubVars, report,
                    issueIdx, jiraRequests, received, upstream >>

\* one turn of the loop: client.Do or Decode returns an error
JiraRequestFails ==
    /\ pc = "jira_fetch"
    /\ Len(jiraRequests) < MaxJiraRequests
    /\ jiraRequests' = Append(jiraRequests, offset)
    /\ \E answer \in {"network error", "malformed body"} :
        /\ upstream' = upstream \cup {<<"jira", answer>>}
        /\ Fatal(IF answer = "network error" THEN "jira request"
                                            ELSE "jira decode")
    /\ UNCHANGED << mainVars, stdout, serverVars, githubVars, jiraEnv, offset,
                    totalIssues, countByPerson, report, issueIdx, received >>

\* one turn of the loop, up to "totalIssues += report.Total": a body that
\* decodes, with status 200 or with an error status (which the loop does not
\* look at)
JiraFetchPage ==
    /\ pc = "jira_fetch"
    /\ Len(jiraRequests) < MaxJiraRequests
    /\ jiraRequests' = Append(jiraRequests, offset)
    /\ \E answer \in {"ok", "error status"} :
        /\ report' = IF answer = "ok"
                        THEN JiraSearch(jiraSize, jiraShift, offset)
                        ELSE EmptyReport
        /\ upstream' = IF answer = "ok" THEN upstream
                       ELSE upstream \cup {<<"jira", answer>>}
    /\ totalIssues' = AddTotal(totalIssues, report')
    /\ issueIdx' = 1
    /\ pc' = "jira_issues"
    /\ UNCHANGED << mainVars, fatal, stdout, serverVars, githubVars, jiraEnv,
                    offset, countByPerson, received >>

\* one turn of the loop over report.Issues
JiraCountIssue ==
    /\ pc = "jira_issues"
    /\ issueIdx <= Len(report.issues)
    /\ countByPerson' = CountIssue(countByPerson, report.issues[issueIdx])
    /\ received' = Append(received, report.issues[issueIdx])
    /\ issueIdx' = issueIdx + 1
    /\ UNCHANGED << pc, mainVars, fatal, stdout, serverVars, githubVars,
                    jiraEnv, offset, totalIssues, report, jiraRequests,
                    upstream >>

\* the end of one turn of the loop: the stop test, or the next offset
JiraPageEnd ==
    /\ pc = "jira_issues"
    /\ issueIdx > Len(report.issues)
    /\ IF LastPage(report)
       THEN offset' = offset /\ pc' = "jira_render"
       ELSE offset' = offset + JiraPageSize /\ pc' = "jira_fetch"
    /\ UNCHANGED << mainVars, fatal, stdout, serverVars, githubVars, jiraEnv,
                    totalIssues, countByPerson, report, issueIdx,
                    jiraRequests, received, upstream >>

\* the count line, the table, and the return to main, which returns too
JiraRender ==
    /\ pc = "jira_render"
    /\ stdout' = Append(stdout, "jira table")
    /\ pc' = "exit0"
    /\ UNCHANGED << mainVars, fatal, serverVars, githubVars, jiraVars,
                    upstream >>

\* ------------------------------------------------------------------------
\* Specification
\* ------------------------------------------------------------------------
Next ==
    \/ Main
    \/ GithubConfig
    \/ GithubQueryFails
    \/ GithubFetchPage
    \/ GithubGroup
    \/ GithubLookupFails
    \/ GithubRow
    \/ GithubRender
    \/ JiraConfig
    \/ JiraRequestFails
    \/ JiraFetchPage
    \/ JiraCountIssue
    \/ JiraPageEnd
    \/ JiraRender

Spec == Init /\ [][Next]_vars

TypeOK ==
    /\ pc \in {"main", "github", "gh_fetch", "gh_group", "gh_rows", "jira",
               "jira_fetch", "jira_issues", "jira_render", "exit0", "exit1"}
    /\ Len(allPRs) <= Len(repoPRs)

\* ------------------------------------------------------------------------
\* Properties
\* ------------------------------------------------------------------------
Printed(what) == \E i \in 1..Len(stdout) : stdout[i] = what

\* the pagination loop was entered and left, by a break
LoopEnded ==
    /\ Len(ghRequests) > 0
    /\ pc # "gh_fetch"
    /\ fatal # "github query"

InWindow(pr) == pr.createdAt > initialDate /\ pr.createdAt <= endDate

\* C1: once the pagination loop has ended, the accepted pull requests are
\* exactly those of the repository with start < createdAt <= end, in the
\* order served.
C1_WindowFilter == LoopEnded => allPRs = SelectSeq(repoPRs, InWindow)

C1_Witness ==
    /\ LoopEnded
    /\ \E i, j, k \in 1..Len(repoPRs) :
        /\ repoPRs[i].createdAt = endDate
        /\ repoPRs[j].createdAt = initialDate
        /\ repoPRs[k].createdAt = initialDate + 1
    /\ \E i, k \in 1..Len(allPRs) :
        /\ allPRs[i].createdAt = endDate
        /\ allPRs[k].createdAt = initialDate + 1

\* what the loop accepts when the server puts every record in one page
Unpaged == ScanPage(repoPRs, <<>>, initialDate, endDate).allPRs

\* the logins of prs in ascending order
Ascending(keys) ==
    CHOOSE s \in KeyOrders(keys) :
        \A i, j \in 1..Len(s) : i < j => LexLess(s[i], s[j])

\* the rows of the table for the accepted set prs
RowsOf(prs) ==
    LET logins == Ascending({prs[i].login : i \in 1..Len(prs)})
    IN  [i \in 1..Len(logins) |->
            MakeRow(logins[i], UserName(logins[i]),
                    SelectSeq(prs, LAMBDA pr : pr.login = logins[i]), endDate)]

RECURSIVE SumNumPRs(_)
SumNumPRs(rs) == IF rs = <<>> THEN 0 ELSE Head(rs).numPRs + SumNumPRs(Tail(rs))

\* C2: whatever the page size, the loop accepts what a single unpaged fetch
\* accepts, the rendered rows are the rows of that set, and the rows' totalPRs
\* add up to the number of accepted records.
C2_PageIndependence ==
    LoopEnded =>
        /\ allPRs = Unpaged
        /\ Printed("github table") =>
            /\ rows = RowsOf(Unpaged)
            /\ SumNumPRs(rows) = Len(Unpaged)

C2_Witness ==
    /\ Printed("github table")
    /\ pageSize = 3
    /\ Len(ghRequests) = 2
    /\ Len(allPRs) = 4
    /\ allPRs[2].login = allPRs[4].login
    /\ allPRs[1].login # allPRs[4].login

\* a record with createdAt <= start is among the records fetched so far
StopObserved ==
    \E i \in 1..Min(query.endCursor, Len(repoPRs)) :
        repoPRs[i].createdAt <= initialDate

FirstOld ==
    CHOOSE i \in 1..Len(repoPRs) :
        /\ repoPRs[i].createdAt <= initialDate
        /\ \A j \in 1..(i - 1) : repoPRs[j].createdAt > initialDate

\* C3: once a record with createdAt <= start has been fetched, the loop has
\* ended (no further page is requested) and only records served before that
\* record are accepted.
C3_EarlyStop ==
    StopObserved =>
        /\ pc # "gh_fetch"
        /\ Len(allPRs) <= FirstOld - 1

\* C3 where the window is not inverted
C3_EarlyStopInOrderedWindow == initialDate <= endDate => C3_EarlyStop

CountOf(login, Test(_)) ==
    Cardinality({i \in 1..Len(allPRs) :
                    allPRs[i].login = login /\ Test(allPRs[i])})

MergedAsOfEnd(pr) == pr.merged /\ pr.mergedAt <= endDate

\* C4: a row's mergedPRs is the number of the author's accepted pull
\* requests with merged = true and mergedAt <= end.
C4_MergedClassification ==
    \A i \in 1..Len(rows) :
        rows[i].mergedPRs = CountOf(rows[i].login, MergedAsOfEnd)

C4_Witness ==
    \E i \in 1..Len(rows) :
        /\ rows[i].mergedPRs = 1
        /\ \E k \in 1..Len(allPRs) :
            /\ allPRs[k].login = rows[i].login
            /\ allPRs[k].merged
            /\ allPRs[k].mergedAt = endDate + 1

OpenAsOfEnd(pr) == ~pr.closed \/ pr.closedAt > endDate

\* C5 as stated: every accepted pull request with closed = false, or with
\* closedAt > end, is counted in its author's openPRs.
C5_OpenClassification_Original ==
    \A i \in 1..Len(rows) :
        rows[i].openPRs >= CountOf(rows[i].login, OpenAsOfEnd)

OpenAndNotMerged(pr) == ~MergedAsOfEnd(pr) /\ OpenAsOfEnd(pr)

\* C5, amended: every accepted pull request that is not merged as of end
\* and has closed = false, or closedAt > end, is counted in its author's
\* openPRs.
C5_OpenClassification ==
    \A i \in 1..Len(rows) :
        rows[i].openPRs >= CountOf(rows[i].login, OpenAndNotMerged)

C5_Witness ==
    \E i \in 1..Len(rows) :
        /\ rows[i].openPRs = 2
        /\ \E k, n \in 1..Len(allPRs) :
            /\ allPRs[k].login = rows[i].login
            /\ allPRs[n].login = rows[i].login
            /\ ~allPRs[k].closed
            /\ allPRs[n].closed /\ allPRs[n].closedAt = endDate + 1
            /\ allPRs[n].merged /\ allPRs[n].mergedAt = endDate + 1

\* a search was answered and decoded, and no fatal error ended the loop
JiraAnswered ==
    /\ Len(jiraRequests) > 0
    /\ fatal \notin {"jira request", "jira decode"}

\* C6: after a response with fewer than 50 issues was processed the loop
\* makes no further request, whatever its total.
C6_JiraStopRule ==
    (JiraAnswered /\ Len(report.issues) < JiraPageSize) => pc # "jira_fetch"

\* C7: while every answer was a search result, totalIssues is the total of
\* the last response received, not the sum of the totals of all responses.
C7_JiraReportedTotal ==
    (JiraAnswered /\ upstream = {}) => totalIssues = report.total

\* positions of the history entries of an issue that hold an item with
\* field "status" and toString "In Progress"
InProgressEntries(issue) ==
    {i \in 1..Len(issue.histories) :
        \E j \in 1..Len(issue.histories[i].items) :
            /\ issue.histories[i].items[j].field = "status"
            /\ issue.histories[i].items[j].toString = "In Progress"}

SetMax(S) == CHOOSE m \in S : \A x \in S : x <= m

\* the author of the last such entry of the histories list
LastInProgressAuthor(issue) ==
    issue.histories[SetMax(InProgressEntries(issue))].author

Persons == {"ann", "ben", "cat"}

\* C8: every received issue with such entries counts once, for the author
\* of the last of them: a person's totalInProgress is the number of received
\* issues whose last such entry is theirs, and spikeInProgress the number of
\* those of type "Spike".
C8_LastTransitionCounts ==
    /\ DOMAIN countByPerson \subseteq Persons
    /\ \A p \in Persons :
        LET mine == {i \in 1..Len(received) :
                        /\ InProgressEntries(received[i]) # {}
                        /\ LastInProgressAuthor(received[i]) = p}
        IN  /\ Lookup(countByPerson, p).totalInProgress = Cardinality(mine)
            /\ Lookup(countByPerson, p).spikeInProgress =
                  Cardinality({i \in mine : received[i].type = "Spike"})

C8_Witness ==
    /\ pc = "jira_render"
    /\ \E i \in 1..Len(received) :
        /\ Cardinality(InProgressEntries(received[i])) >= 2
        /\ received[i].type = "Spike"
        /\ \E a, b \in InProgressEntries(received[i]) :
            received[i].histories[a].author # received[i].histories[b].author
    /\ \E p \in DOMAIN countByPerson : countByPerson[p].spikeInProgress >= 1

\* printMetricsForGithub was entered and has read its configuration
GithubConfigRead == pc \notin {"main", "github"} /\ fatal \notin
    {"env file", "usage", "start date"}

\* C9: with GITHUB_TOKEN, GITHUB_OWNER or GITHUB_REPO empty, no GraphQL
\* request is sent.
C9_MissingGithubConfig ==
    (GithubConfigRead /\ (githubToken = "" \/ githubOwner = "" \/ githubRepo = ""))
        => ghRequests = <<>>

\* C10: after a failed request to either upstream the process has aborted.
C10_UpstreamErrorsFatal == upstream # {} => pc = "exit1"

\* main has computed the window and called printMetricsForGithub
WindowComputed ==
    pc # "main" /\ fatal \notin {"env file", "usage", "start date"}

\* C11: the window main computes from the arguments it accepts satisfies
\* start <= end.
C11_WindowOrdered == WindowComputed => initialDate <= endDate

\* the arguments of ArgValues that are dates of the calendar
CalendarDates == {Feb28, Mar15}

\* days from 1970-01-01 to 2024-02-28 and to 2024-03-15, from the calendar
DaysSince1970(date) == IF date = Feb28 THEN 19781 ELSE 19797

\* C12: a missing or unparseable start date ends the process before any
\* request of either pipeline; a missing or unparseable end date is not fatal
\* and makes end the current instant; a valid end date makes end 23:59:59 of
\* that day.
C12_ArgumentHandling ==
    /\ (Len(args) < 1 \/ args[1] \notin CalendarDates) =>
        /\ pc \in {"main", "exit1"}
        /\ ghRequests = <<>> /\ lookups = <<>> /\ jiraRequests = <<>>
    /\ fatal \in {"usage", "start date"} =>
        (Len(args) < 1 \/ args[1] \notin CalendarDates)
    /\ WindowComputed =>
        /\ initialDate = DaysSince1970(args[1]) * 24 * 3600
        /\ endDate =
            IF Len(args) >= 2 /\ args[2] \in CalendarDates
            THEN DaysSince1970(args[2]) * 24 * 3600
                    + 23 * 3600 + 59 * 60 + 59
            ELSE NowValue

C12_Witness ==
    /\ Printed("jira table")
    /\ Len(args) = 2 /\ args[2] = Feb30
    /\ endDate = NowValue
    /\ ghRequests # <<>>

\* the offset of the first page that holds fewer than JiraPageSize issues
FirstShortOffset == JiraPageSize * (jiraSize \div JiraPageSize)

\* C13: against a server that answers every search, the loop requests the
\* offsets 0, 50, 100, ... and none beyond the first offset whose page holds
\* fewer than 50 issues, and has requested exactly those when it prints.
C13_JiraLoopTerminates ==
    upstream = {} =>
        /\ \A i \in 1..Len(jiraRequests) :
            /\ jiraRequests[i] = JiraPageSize * (i - 1)
            /\ jiraRequests[i] <= FirstShortOffset
        /\ Printed("jira table") =>
            Len(jiraRequests) = (jiraSize \div JiraPageSize) + 1

\* number of pages the server cuts the repository into
PageCount ==
    (Len(repoPRs) + Min(pageSize, PageLimit) - 1) \div Min(pageSize, PageLimit)

\* the scan of the page fetched last took the early stop
LastPageStopped ==
    \E i \in 1..Len(query.nodes) :
        /\ query.nodes[i].createdAt <= endDate
        /\ query.nodes[i].createdAt <= initialDate

\* C14: the first query carries the nil cursor and the i-th the end cursor
\* of the page before it; the loop goes on exactly while the page fetched
\* last was not empty, its scan took no early stop and hasNextPage is true
\* (so a page of records all newer than end does not end it); it sends no
\* more queries than the server has pages, at least one.
C14_CursorProtocol ==
    /\ \A i \in 1..Len(ghRequests) :
        ghRequests[i] =
            IF i = 1 THEN <<>> ELSE <<(i - 1) * Min(pageSize, PageLimit)>>
    /\ Len(ghRequests) <= (IF PageCount = 0 THEN 1 ELSE PageCount)
    /\ (pc = "gh_fetch" /\ ghRequests # <<>>) =>
        /\ query.nodes # <<>>
        /\ query.hasNextPage
        /\ ~LastPageStopped
    /\ LoopEnded =>
        \/ query.nodes = <<>>
        \/ LastPageStopped
        \/ ~query.hasNextPage

C14_Witness ==
    /\ LoopEnded
    /\ Len(ghRequests) = 3
    /\ ghRequests[3] = <<2>>
    /\ repoPRs[1].createdAt > endDate
    /\ ~LastPageStopped
    /\ allPRs # <<>>

RECURSIVE SumSeq(_)
SumSeq(s) == IF s = <<>> THEN 0 ELSE Head(s) + SumSeq(Tail(s))

\* the accepted pull requests of one login
AcceptedOf(login) == SelectSeq(allPRs, LAMBDA pr : pr.login = login)

AnyPR(pr) == TRUE

\* closed by end without being merged by end
ClosedUnmerged(pr) ==
    ~MergedAsOfEnd(pr) /\ pr.closed /\ pr.closedAt <= endDate

\* C15: in every row mergedPRs + openPRs <= totalPRs; the pull requests
\* counted in neither are those closed by end and not merged by end, and
\* every accepted pull request of the author counts in totalPRs, addedLines,
\* removedLines and changedFiles.
C15_DisjointBuckets ==
    \A i \in 1..Len(rows) :
        LET row == rows[i]
            mine == AcceptedOf(row.login)
        IN  /\ row.mergedPRs + row.openPRs <= row.numPRs
            /\ row.numPRs - row.mergedPRs - row.openPRs
                  = CountOf(row.login, ClosedUnmerged)
            /\ row.numPRs = CountOf(row.login, AnyPR)
            /\ row.addedLines =
                  SumSeq([k \in 1..Len(mine) |-> mine[k].additions])
            /\ row.removedLines =
                  SumSeq([k \in 1..Len(mine) |-> mine[k].deletions])
            /\ row.changedFiles =
                  SumSeq([k \in 1..Len(mine) |-> mine[k].changedFiles])

C15_Witness ==
    \E i \in 1..Len(rows) :
        /\ rows[i].numPRs = 2
        /\ rows[i].mergedPRs = 1
        /\ rows[i].openPRs = 0
        /\ rows[i].addedLines = 10
        /\ CountOf(rows[i].login, ClosedUnmerged) = 1

AcceptedLogins == {allPRs[k].login : k \in 1..Len(allPRs)}

\* C16: user queries are sent only once the pagination loop has ended, in
\* ascending order of login (so at most one per login), only for logins of
\* accepted pull requests, and the rows follow the same order; when the
\* table is printed every accepted login was looked up.
C16_IdentityResolution ==
    /\ lookups # <<>> => (LoopEnded /\ pc # "gh_group")
    /\ \A i, j \in 1..Len(lookups) :
        i < j => LexLess(lookups[i], lookups[j])
    /\ \A i \in 1..Len(lookups) : lookups[i] \in AcceptedLogins
    /\ Len(rows) <= Len(lookups)
    /\ \A i \in 1..Len(rows) : rows[i].login = lookups[i]
    /\ Printed("github table") =>
        /\ {lookups[i] : i \in 1..Len(lookups)} = AcceptedLogins
        /\ Len(rows) = Len(lookups)

C16_Witness ==
    /\ Printed("github table")
    /\ Len(lookups) = 2
    /\ \E k \in 1..Len(repoPRs) : repoPRs[k].login \notin AcceptedLogins
    /\ \E k \in 1..(Len(allPRs) - 1) :
        LexLess(allPRs[k + 1].login, allPRs[k].login)

\* the sum of totalInProgress over all persons
SumInProgress ==
    Lookup(countByPerson, "ann").totalInProgress
        + Lookup(countByPerson, "ben").totalInProgress
        + Lookup(countByPerson, "cat").totalInProgress

\* C17: the sum of totalInProgress over all persons is the number of
\* received issues that have a history entry with an item of field "status"
\* and toString "In Progress", it is at most the number of issues received,
\* and spikeInProgress <= totalInProgress for every person.
C17_JiraAggregateBounds ==
    /\ DOMAIN countByPerson \subseteq Persons
    /\ SumInProgress =
          Cardinality({i \in 1..Len(received) :
                          InProgressEntries(received[i]) # {}})
    /\ SumInProgress <= Len(received)
    /\ \A p \in DOMAIN countByPerson :
        countByPerson[p].spikeInProgress <= countByPerson[p].totalInProgress

C17_Witness ==
    /\ pc = "jira_render"
    /\ \E i \in 1..Len(received) :
        /\ received[i].histories # <<>>
        /\ InProgressEntries(received[i]) = {}
    /\ SumInProgress >= 1
    /\ SumInProgress < Len(received)

\* C18: when the table is printed the divisor of the footer's averages is at
\* least 1, and the divisor of every row's percentage is at least 1.
C18_NonZeroDivisors ==
    /\ \A i \in 1..Len(rows) : rows[i].pctDivisor >= 1
    /\ Printed("github table") => footer.divisor >= 1

====
